---- MODULE Spec2Model ----
(***************************************************************************)
(* A model of the artifact secret-leak scanner of scripts/scan_artifacts.py *)
(* (class LeakScanner, modes "s3" and "files") and of its older variant     *)
(* scripts/scan_s3_artifacts.py (class S3Scanner).                          *)
(*                                                                         *)
(* Text is a sequence of one-character strings, so that the regular        *)
(* expression, str.splitlines, str.endswith and the substring test are     *)
(* computed character by character, as the interpreter computes them.      *)
(***************************************************************************)
EXTENDS Integers, Sequences, FiniteSets, TLC

\* ------------------------------------------------------------------ bounds

\* Longest content, in fragments, that the pure-function specification draws.
MaxFrags == 3

\* Most extensions that a name made of extensions ends with.
MaxExts == 2

\* Most blobs one run enumerates (keys of the bucket, or entries of a path).
MaxBlobs == 2

\* Keys per page of the bucket listing.
PageSize == 1

\* Runs of the program on the same machine, one after the other.
MaxRuns == 2

\* Most requests (list and get) of one call of scan_s3_bucket.
MaxCalls == 6

\* ------------------------------------------------------------- characters

LF == "\n"
CR == "\r"
FF == "\f"

\* A byte that is not valid UTF-8; bytes.decode("utf-8", errors="ignore")
\* drops it.
InvalidByte == "<ff>"

\* The line boundaries of str.splitlines that the inputs use (the others,
\* such as \v, \x1c, \x85 and the Unicode separators, split as \f does).
LineBreaks == {LF, CR, FF}

Upper ==
    {"A", "B", "C", "D", "E", "F", "G", "H", "I", "J", "K", "L", "M",
     "N", "O", "P", "Q", "R", "S", "T", "U", "V", "W", "X", "Y", "Z"}

\* The character class [A-Z_].
UpperOrUnderscore == Upper \cup {"_"}

Min(a, b) == IF a <= b THEN a ELSE b

\* str.startswith at an offset: w occurs in s at position i.
StartsWithAt(s, i, w) ==
    /\ i >= 1
    /\ i + Len(w) - 1 <= Len(s)
    /\ \A k \in 1..Len(w) : s[i + k - 1] = w[k]

\* str.endswith
endswith(s, w) == Len(w) <= Len(s) /\ StartsWithAt(s, Len(s) - Len(w) + 1, w)

\* The operator "in" on strings: sub is a substring of line. The empty string
\* is a substring of every string.
Contains(line, sub) ==
    \E i \in 1..(Len(line) - Len(sub) + 1) : StartsWithAt(line, i, sub)

RECURSIVE Concat(_)
Concat(seqs) == IF seqs = <<>> THEN <<>> ELSE Head(seqs) \o Concat(Tail(seqs))

\* bytes.decode("utf-8", errors="ignore")
decode(bytes) == SelectSeq(bytes, LAMBDA b : b # InvalidByte)

RECURSIVE SplitFrom(_, _, _)
SplitFrom(s, i, cur) ==
    IF i > Len(s)
    THEN IF cur = <<>> THEN <<>> ELSE <<cur>>
    ELSE IF s[i] \in LineBreaks
         THEN <<cur>> \o SplitFrom(s,
                  IF s[i] = CR /\ i + 1 <= Len(s) /\ s[i + 1] = LF
                  THEN i + 2 ELSE i + 1,
                  <<>>)
         ELSE SplitFrom(s, i + 1, Append(cur, s[i]))

\* str.splitlines(): the lines without their line breaks; \r\n is one break,
\* and a final line break opens no further line.
splitlines(s) == SplitFrom(s, 1, <<>>)

\* ------------------------------------------------- the secret-name pattern

KW_SECRET == <<"S", "E", "C", "R", "E", "T">>
KW_PASSWORD == <<"P", "A", "S", "S", "W", "O", "R", "D">>
KW_ACCESS_KEY == <<"A", "C", "C", "E", "S", "S", "_", "K", "E", "Y">>
KW_TOKEN == <<"T", "O", "K", "E", "N">>

\* The two scripts.
SCAN_ARTIFACTS == "scan_artifacts.py"
SCAN_S3_ARTIFACTS == "scan_s3_artifacts.py"
Scripts == {SCAN_ARTIFACTS, SCAN_S3_ARTIFACTS}

\* The keyword alternation of scan_s3_artifacts.py, which lacks TOKEN.
s3_keywords == <<KW_SECRET, KW_PASSWORD, KW_ACCESS_KEY>>

\* The keyword alternation of scan_artifacts.py.
artifacts_keywords == <<KW_SECRET, KW_PASSWORD, KW_ACCESS_KEY, KW_TOKEN>>

\* re.compile(r"[A-Z_]*(SECRET|PASSWORD|ACCESS_KEY|TOKEN)[A-Z_]*"): a greedy
\* run of the prefix class, one of the alternatives in order, a greedy run of
\* the suffix class.
leaked_string_pattern(script) ==
    [prefix |-> UpperOrUnderscore,
     alts |-> IF script = SCAN_ARTIFACTS THEN artifacts_keywords
              ELSE s3_keywords,
     suffix |-> UpperOrUnderscore]

\* The length of the longest run of characters of cls in s from position i.
RECURSIVE RunLen(_, _, _)
RunLen(s, i, cls) ==
    IF i <= Len(s) /\ s[i] \in cls THEN 1 + RunLen(s, i + 1, cls) ELSE 0

\* The first alternative that occurs in s at position j, 0 if none does.
FirstAlt(alts, s, j) ==
    IF \E k \in 1..Len(alts) : StartsWithAt(s, j, alts[k])
    THEN CHOOSE k \in 1..Len(alts) :
             /\ StartsWithAt(s, j, alts[k])
             /\ \A m \in 1..(k - 1) : ~StartsWithAt(s, j, alts[m])
    ELSE 0

\* The backtracking of the greedy prefix: with p characters given to the
\* prefix, try the alternatives; on failure give the prefix one character
\* less. The result is the position after the match, 0 if there is none.
RECURSIVE TryPrefix(_, _, _, _)
TryPrefix(pat, s, i, p) ==
    IF p < 0 THEN 0
    ELSE LET After(e) == e + RunLen(s, e, pat.suffix)
             With(k) == IF k # 0 THEN After(i + p + Len(pat.alts[k]))
                        ELSE TryPrefix(pat, s, i, p - 1)
         IN With(FirstAlt(pat.alts, s, i + p))

\* The match of the pattern that starts at position i of s: the position
\* after it, 0 if the pattern does not match there.
MatchEnd(pat, s, i) == TryPrefix(pat, s, i, RunLen(s, i, pat.prefix))

\* Pattern.match: a match at the start of s.
re_match(pat, s) == MatchEnd(pat, s, 1) # 0

RECURSIVE FindIterFrom(_, _, _)
FindIterFrom(pat, s, pos) ==
    IF pos > Len(s) THEN <<>>
    ELSE LET To(e) == IF e = 0
                      THEN FindIterFrom(pat, s, pos + 1)
                      ELSE <<SubSeq(s, pos, e - 1)>> \o FindIterFrom(pat, s, e)
         IN To(MatchEnd(pat, s, pos))

\* Pattern.finditer, each match's group(0): the non-overlapping matches, left
\* to right, each the leftmost one after the end of the one before.
finditer(pat, s) == FindIterFrom(pat, s, 1)

\* ---------------------------------------------------------------- scan_file

\* The length of the preview of a literal secret: secret_string[:4].
PreviewLen == 4

Ellipsis == <<".", ".", ".">>

\* f"{secret_string[:4]}..."
Preview(secret_string) ==
    SubSeq(secret_string, 1, Min(PreviewLen, Len(secret_string))) \o Ellipsis

\* A scanner object and the module-level list it reads: self.script is the
\* script that defines the class, self.env_secrets_only the flag of __init__,
\* self.sens the list sensitive_strings at the time of the call.
Scanner(script, env_only, sens) ==
    [script |-> script, env_secrets_only |-> env_only, sens |-> sens]

\* The findings of the regular expression on one line.
PatternFindings(self, line, file_name, line_number) ==
    LET Each(ms) == [i \in 1..Len(ms) |-> <<file_name, line_number, ms[i]>>]
    IN Each(finditer(leaked_string_pattern(self.script), line))

\* The findings of the literal secrets on one line, in the order of the list.
LiteralFindings(self, line, file_name, line_number) ==
    LET Each(hit) ==
            [i \in 1..Len(hit) |-> <<file_name, line_number, Preview(hit[i])>>]
    IN Each(SelectSeq(self.sens,
                      LAMBDA secret_string : Contains(line, secret_string)))

\* A mutant of LineFindings: the flag env_secrets_only is ignored.
LineFindingsIgnoringFlag(self, line, file_name, line_number) ==
    PatternFindings(self, line, file_name, line_number)
        \o LiteralFindings(self, line, file_name, line_number)

\* A mutant of LineFindings: only the first match of a line is recorded
\* (search in place of finditer).
LineFindingsFirstMatchOnly(self, line, file_name, line_number) ==
    LET First(pf) == IF pf = <<>> THEN <<>> ELSE <<pf[1]>>
    IN (IF ~self.env_secrets_only
        THEN First(PatternFindings(self, line, file_name, line_number))
        ELSE <<>>)
           \o LiteralFindings(self, line, file_name, line_number)

\* The body of the loop of scan_file over the lines.
LineFindings(self, line, file_name, line_number) ==
    (IF ~self.env_secrets_only
     THEN PatternFindings(self, line, file_name, line_number)
     ELSE <<>>)
        \o LiteralFindings(self, line, file_name, line_number)

\* scan_file(file_content, file_name): the findings (file_name, line_number,
\* match) of the lines of file_content, numbered from 1.
scan_file(self, file_content, file_name) ==
    LET Each(lines) ==
            Concat([n \in 1..Len(lines) |->
                       LineFindings(self, lines[n], file_name, n)])
    IN Each(splitlines(file_content))

\* A mutant of scan_env_vars: the environment is gone through twice.
scan_env_vars_Twice(script, sens, env) ==
    LET Values(hit) == [i \in 1..Len(hit) |-> hit[i][2]]
        Twice(values) == sens \o values \o values
    IN Twice(Values(SelectSeq(env,
                 LAMBDA var : re_match(leaked_string_pattern(script), var[1]))))

\* A mutant of scan_env_vars: the value of every variable is added.
scan_env_vars_EveryValue(script, sens, env) ==
    sens \o [i \in 1..Len(env) |-> env[i][2]]

\* scan_env_vars: the list sensitive_strings after the loop over os.environ,
\* a sequence of (name, value) pairs.
scan_env_vars(script, sens, env) ==
    LET Values(hit) == [i \in 1..Len(hit) |-> hit[i][2]]
    IN sens \o Values(SelectSeq(env,
                   LAMBDA var : re_match(leaked_string_pattern(script), var[1])))

\* ------------------------------------------------------- names and texts

Slash ==
    <<"/">>

EXT_TAR ==
    <<".", "t", "a", "r">>

EXT_TAR_GZ ==
    <<".", "t", "a", "r", ".", "g", "z">>

EXT_TGZ ==
    <<".", "t", "g", "z">>

EXT_GZ ==
    <<".", "g", "z">>

EXT_TAR_ZST ==
    <<".", "t", "a", "r", ".", "z", "s", "t">>

EXT_ZST ==
    <<".", "z", "s", "t">>

EXT_ZIP ==
    <<".", "z", "i", "p">>

EXT_DEB ==
    <<".", "d", "e", "b">>

EXT_RPM ==
    <<".", "r", "p", "m">>

\* The extraction directory of scan_deb and scan_rpm, "/tmp/package".
TMP_PACKAGE ==
    <<"/", "t", "m", "p", "/", "p", "a", "c", "k", "a", "g", "e">>

\* A text with no secret name; its second line holds the value hunter22.
TXT_CLEAN ==
    <<"o", "k", "\n", "k", "e", "y", "=", "h", "u", "n", "t", "e", "r", "2",
    "2", "\n">>

TXT_SECRET ==
    <<"M", "Y", "_", "S", "E", "C", "R", "E", "T", "_", "T", "O", "K", "E",
    "N", "=", "h", "e", "l", "l", "o", "\n">>

\* A secret name on the second line.
TXT_LINE2 ==
    <<"x", "\r", "\n", "D", "B", "_", "P", "A", "S", "S", "W", "O", "R", "D",
    "=", "1", "\n">>

TXT_PW ==
    <<"P", "A", "S", "S", "W", "O", "R", "D", "=", "x", "y", "z">>

TXT_TOKEN ==
    <<"T", "O", "K", "E", "N">>

\* A keyword with an invalid byte inside.
TXT_TWO ==
    <<"A", "_", "T", "O", "K", "E", "N", "=", "B", "_", "S", "E", "C", "R", "E",
      "T", " ", "h", "u", "n", "t", "e", "r", "2", "2">>
TXT_BROKEN ==
    <<"S", "E", "C", InvalidByte, "R", "E", "T">>

\* The value of a secret of more than PreviewLen characters.
VAL_LONG ==
    <<"h", "u", "n", "t", "e", "r", "2", "2">>

VAL_HOME ==
    <<"/", "r", "o", "o", "t">>

NAME_GITHUB_TOKEN ==
    <<"G", "I", "T", "H", "U", "B", "_", "T", "O", "K", "E", "N">>

NAME_HOME ==
    <<"H", "O", "M", "E">>

KEY_LOG ==
    <<"a", "p", "p", ".", "l", "o", "g">>

KEY_TAR ==
    <<"a", "r", "c", "h", "i", "v", "e", ".", "t", "a", "r">>

KEY_TGZ ==
    <<"b", ".", "t", "g", "z">>

KEY_TAR_ZST ==
    <<"l", "o", "g", "s", ".", "t", "a", "r", ".", "z", "s", "t">>

KEY_ZIP ==
    <<"d", "o", "c", "s", ".", "z", "i", "p">>

KEY_BAD_ZIP ==
    <<"b", "a", "d", ".", "z", "i", "p">>

KEY_DEB ==
    <<"p", "k", "g", ".", "d", "e", "b">>

KEY_BAD_DEB ==
    <<"b", "a", "d", ".", "d", "e", "b">>

KEY_LINK_DEB ==
    <<"l", "i", "n", "k", ".", "d", "e", "b">>

KEY_RPM ==
    <<"t", "o", "o", "l", ".", "r", "p", "m">>

KEY_GONE ==
    <<"g", "o", "n", "e", ".", "t", "x", "t">>

KEY_TWO ==
    <<"t", "w", "o", ".", "t", "x", "t">>
KEY_GZ ==
    <<"d", "u", "m", "p", ".", "g", "z">>

\* The directory that the files mode is given in the layout "dir".
DIR_NAME ==
    <<"a", "r", "t">>

\* A path that is neither a file nor a directory.
PATH_INVALID ==
    <<"n", "o", "w", "h", "e", "r", "e">>

M_CONFIG_TXT ==
    <<"c", "o", "n", "f", "i", "g", ".", "t", "x", "t">>

M_ETC ==
    <<"e", "t", "c">>

M_ETC_ENV ==
    <<"e", "t", "c", "/", "e", "n", "v">>

M_LINK ==
    <<"e", "t", "c", "/", "l", "i", "n", "k">>

M_A_LOG ==
    <<"a", ".", "l", "o", "g">>

M_D ==
    <<"d", "/">>

M_APP_CONF ==
    <<"d", "/", "a", "p", "p", ".", "c", "o", "n", "f">>

M_USR_SECRET ==
    <<"u", "s", "r", "/", "s", "e", "c", "r", "e", "t", ".", "c", "o", "n",
    "f">>

M_USR_DANGLING ==
    <<"u", "s", "r", "/", "d", "a", "n", "g", "l", "i", "n", "g">>

M_RPM_CONF ==
    <<"e", "t", "c", "/", "r", "p", "m", ".", "c", "o", "n", "f">>

KEY_OUTER ==
    <<"o", "u", "t", "e", "r", ".", "t", "a", "r", ".", "g", "z">>

M_INNER_ZIP ==
    <<"i", "n", "n", "e", "r", ".", "z", "i", "p">>

M_INNER_APP_CONF ==
    <<"a", "p", "p", ".", "c", "o", "n", "f">>

\* The bytes of inner.zip, whose one entry app.conf is deflated: the
\* signature, the name of the entry, and bytes that are no text.
TXT_ZIP_BYTES ==
    <<"P", "K", InvalidByte, "a", "p", "p", ".", "c", "o", "n", "f",
      InvalidByte, "x", "9", InvalidByte>>

\* ----------------------------------------------------------------- blobs

\* A member of an archive or a file of a package: type is "file", "dir" or
\* "symlink" (in an extracted package: a symbolic link whose target does not
\* exist).
Member(name, type, data) == [name |-> name, type |-> type, data |-> data]

\* A blob: its identifier (object key, or file name), the format of its bytes
\* ("garbage": bytes of no format), the bytes of a one-member format, the
\* members of a container, and whether its bytes can be fetched. The bytes of
\* a blob are of the format that its identifier's extension names, or garbage.
Blob(key, fmt, text, members, readable) ==
    [key |-> key, fmt |-> fmt, text |-> text, members |-> members,
     readable |-> readable]

B_LOG == Blob(KEY_LOG, "plain", TXT_CLEAN, <<>>, TRUE)
B_TWO == Blob(KEY_TWO, "plain", TXT_TWO, <<>>, TRUE)
\* archive.tar: a tar archive stores its members as they are, so that the
\* bytes of the archive hold the text of config.txt.
B_TAR ==
    Blob(KEY_TAR, "tar", M_CONFIG_TXT \o <<InvalidByte>> \o TXT_SECRET,
         <<Member(M_CONFIG_TXT, "file", TXT_SECRET)>>, TRUE)
B_TGZ ==
    Blob(KEY_TGZ, "targz", <<>>,
         <<Member(M_ETC, "dir", <<>>),
           Member(M_ETC_ENV, "file", TXT_LINE2),
           Member(M_LINK, "symlink", <<>>),
           Member(M_CONFIG_TXT, "file", TXT_SECRET)>>, TRUE)
B_TAR_ZST ==
    Blob(KEY_TAR_ZST, "tarzst", <<>>, <<Member(M_A_LOG, "file", TXT_SECRET)>>, TRUE)
B_ZIP ==
    Blob(KEY_ZIP, "zip", <<>>,
         <<Member(M_D, "dir", <<>>), Member(M_APP_CONF, "file", TXT_PW)>>, TRUE)
B_BAD_ZIP == Blob(KEY_BAD_ZIP, "garbage", <<>>, <<>>, TRUE)
B_DEB ==
    Blob(KEY_DEB, "deb", <<>>, <<Member(M_USR_SECRET, "file", TXT_SECRET)>>, TRUE)
B_BAD_DEB == Blob(KEY_BAD_DEB, "garbage", <<>>, <<>>, TRUE)
B_LINK_DEB ==
    Blob(KEY_LINK_DEB, "deb", <<>>,
         <<Member(M_USR_DANGLING, "symlink", <<>>)>>, TRUE)
B_RPM ==
    Blob(KEY_RPM, "rpm", <<>>, <<Member(M_RPM_CONF, "file", TXT_TOKEN)>>, TRUE)
B_GONE == Blob(KEY_GONE, "plain", TXT_SECRET, <<>>, FALSE)
B_GZ == Blob(KEY_GZ, "gz", TXT_BROKEN, <<>>, TRUE)

\* inner.zip, holding app.conf, and outer.tar.gz, holding inner.zip.
B_INNER_ZIP ==
    Blob(M_INNER_ZIP, "zip", TXT_ZIP_BYTES,
         <<Member(M_INNER_APP_CONF, "file", TXT_PW)>>, TRUE)
B_OUTER ==
    Blob(KEY_OUTER, "targz", <<>>,
         <<Member(M_INNER_ZIP, "file", B_INNER_ZIP.text)>>, TRUE)

\* The blobs that the inputs are drawn from.
Catalogue ==
    {B_LOG, B_TAR, B_TGZ, B_TAR_ZST, B_ZIP, B_BAD_ZIP, B_DEB, B_BAD_DEB,
     B_LINK_DEB, B_RPM, B_GONE, B_GZ, B_OUTER, B_TWO}

\* os.environ, as a sequence of (name, value) pairs: without and with a
\* variable of a secret name.
ENV_PLAIN == << <<NAME_HOME, VAL_HOME>> >>
ENV_SECRET == << <<NAME_HOME, VAL_HOME>>, <<NAME_GITHUB_TOKEN, VAL_LONG>> >>
Environments == {ENV_PLAIN, ENV_SECRET}

\* ------------------------------------------------------------ file system

\* The part of the machine's file system that the scanner writes: the
\* temporary files of NamedTemporaryFile(delete=False) that exist (tmp, named
\* by number; next_tmp is the next fresh name), whether /tmp/package exists,
\* and its files in the order os.walk yields them.
EmptyFs == [tmp |-> {}, next_tmp |-> 1, pkg_exists |-> FALSE, pkg |-> <<>>]

\* The files of a directory after an archive's members are extracted over
\* it: a path that exists is overwritten in place, a new path is added.
RECURSIVE ExtractInto(_, _)
ExtractInto(pkg, members) ==
    IF members = <<>> THEN pkg
    ELSE LET m == Head(members)
             at == {i \in 1..Len(pkg) : pkg[i].name = m.name}
             next == IF at = {} THEN Append(pkg, m)
                     ELSE [pkg EXCEPT ![CHOOSE i \in at : TRUE] = m]
         IN ExtractInto(next, Tail(members))

\* --------------------------------------------------------------- decoders

\* What a call of a decoder does: it returns its list of findings, or raises;
\* fs is the file system after it.
Returned(found, fs) == [raised |-> FALSE, found |-> found, fs |-> fs]
Raised(fs) == [raised |-> TRUE, found |-> <<>>, fs |-> fs]

\* A mutant of TarMembersFindings: the lines are numbered on through the
\* members of the archive.
TarMembersFindingsNumberedOn(self, members, package_name) ==
    LET Text(k) == IF members[k].type = "file" THEN decode(members[k].data)
                   ELSE <<>>
        Before(i) == Concat([k \in 1..(i - 1) |-> Text(k)])
        Later(found, skipped) ==
            SelectSeq(found, LAMBDA f : f[2] > Len(splitlines(skipped)))
    IN Concat([i \in 1..Len(members) |->
                  IF members[i].type = "file"
                  THEN Later(scan_file(self, Before(i) \o Text(i),
                                       package_name \o Slash \o members[i].name),
                             Before(i))
                  ELSE <<>>])

\* The loop over tar.getmembers() of scan_tar and scan_tar_gz: the regular
\* files, each scanned under package_name/member.name.
TarMembersFindings(self, members, package_name) ==
    Concat([i \in 1..Len(members) |->
               IF members[i].type = "file"
               THEN scan_file(self, decode(members[i].data),
                              package_name \o Slash \o members[i].name)
               ELSE <<>>])

\* scan_tar: tarfile.open(mode="r:") raises ReadError on bytes that are no
\* tar archive.
scan_tar(self, blob, package_name, fs) ==
    IF blob.fmt # "tar" THEN Raised(fs)
    ELSE Returned(TarMembersFindings(self, blob.members, package_name), fs)

\* scan_tar_gz: tarfile.open(mode="r:gz").
scan_tar_gz(self, blob, package_name, fs) ==
    IF blob.fmt # "targz" THEN Raised(fs)
    ELSE Returned(TarMembersFindings(self, blob.members, package_name), fs)

\* scan_gz
scan_gz(self, blob, file_name, fs) ==
    IF blob.fmt # "gz" THEN Raised(fs)
    ELSE Returned(scan_file(self, decode(blob.text), file_name), fs)

\* scan_tar_zst: the archive is opened as a stream (mode="r|"), getmembers()
\* reads it to its end, and the read of a member's data then seeks backwards
\* in the stream, which raises tarfile.StreamError. A regular file of size 0
\* is read without a seek.
scan_tar_zst(self, blob, package_name, fs) ==
    IF blob.fmt # "tarzst" THEN Raised(fs)
    ELSE IF \E i \in 1..Len(blob.members) :
                blob.members[i].type = "file" /\ blob.members[i].data # <<>>
         THEN Raised(fs)
         ELSE Returned(<<>>, fs)

\* scan_zst
scan_zst(self, blob, file_name, fs) ==
    IF blob.fmt # "zst" THEN Raised(fs)
    ELSE Returned(scan_file(self, decode(blob.text), file_name), fs)

\* scan_zip: every entry of zip.infolist(), a directory entry read as empty.
scan_zip(self, blob, package_name, fs) ==
    IF blob.fmt # "zip" THEN Raised(fs)
    ELSE Returned(
             Concat([i \in 1..Len(blob.members) |->
                        scan_file(self, decode(blob.members[i].data),
                                  package_name \o Slash \o blob.members[i].name)]),
             fs)

\* The loop over os.walk("/tmp/package") of scan_deb and scan_rpm: every
\* file of the directory, whatever put it there, is opened and scanned under
\* package_name/file_path, file_path = /tmp/package/<path>. open raises on a
\* link without a target.
WalkPackage(self, pkg, package_name) ==
    IF \E i \in 1..Len(pkg) : pkg[i].type = "symlink"
    THEN [raised |-> TRUE, found |-> <<>>]
    ELSE [raised |-> FALSE,
          found |->
              Concat([i \in 1..Len(pkg) |->
                         scan_file(self, decode(pkg[i].data),
                             package_name \o Slash \o TMP_PACKAGE \o Slash
                                 \o pkg[i].name)])]

\* NamedTemporaryFile(delete=False): a file of a fresh name.
WithTmpFile(fs) ==
    [fs EXCEPT !.tmp = @ \cup {fs.next_tmp}, !.next_tmp = @ + 1]

\* os.remove(tmp_file_path)
RemoveTmpFile(fs, tmp_file_path) == [fs EXCEPT !.tmp = @ \ {tmp_file_path}]

\* scan_deb. subprocess.run raises FileNotFoundError when dpkg-deb is not on
\* PATH; its exit status is not looked at: on bytes that are no package
\* dpkg-deb exits with 2 and extracts nothing, and the walk goes on.
scan_deb(self, blob, package_name, fs, helpers) ==
    LET tmp_file_path == fs.next_tmp
        Walked(fs2, walk) ==
            IF walk.raised THEN Raised(fs2)
            ELSE Returned(walk.found, RemoveTmpFile(fs2, tmp_file_path))
        Extracted(fs2) == Walked(fs2, WalkPackage(self, fs2.pkg, package_name))
        Written(fs1) ==
            IF helpers = "missing" THEN Raised(fs1)
            ELSE Extracted(IF blob.fmt = "deb"
                           THEN [fs1 EXCEPT !.pkg_exists = TRUE,
                                            !.pkg = ExtractInto(@, blob.members)]
                           ELSE fs1)
    IN Written(WithTmpFile(fs))

\* scan_rpm. The output of rpm2cpio is captured and dropped; cpio is started
\* in /tmp/package (FileNotFoundError when the directory does not exist) with
\* an empty standard input, so it extracts nothing.
scan_rpm(self, blob, package_name, fs, helpers) ==
    LET tmp_file_path == fs.next_tmp
        Walked(fs1, walk) ==
            IF walk.raised THEN Raised(fs1)
            ELSE Returned(walk.found, RemoveTmpFile(fs1, tmp_file_path))
        Written(fs1) ==
            IF helpers = "missing" \/ ~fs1.pkg_exists THEN Raised(fs1)
            ELSE Walked(fs1, WalkPackage(self, fs1.pkg, package_name))
    IN Written(WithTmpFile(fs))

\* self.extension_to_scan_function, in the order of the dict.
extension_to_scan_function ==
    << <<EXT_TAR, "scan_tar">>, <<EXT_TAR_GZ, "scan_tar_gz">>,
       <<EXT_TGZ, "scan_tar_gz">>, <<EXT_GZ, "scan_gz">>,
       <<EXT_TAR_ZST, "scan_tar_zst">>, <<EXT_ZST, "scan_zst">>,
       <<EXT_ZIP, "scan_zip">>, <<EXT_DEB, "scan_deb">>,
       <<EXT_RPM, "scan_rpm">> >>

\* A mutant of Dispatch: the last extension of the table that the name ends
\* with decides.
DispatchLastMatch(name) ==
    LET table == extension_to_scan_function
        Last(hits) == IF hits = {} THEN "scan_file"
                      ELSE table[CHOOSE i \in hits : \A j \in hits : j <= i][2]
    IN Last({i \in 1..Len(table) : endswith(name, table[i][1])})

\* The loop "for extension, scan_function in ...items(): if
\* key.endswith(extension)": the function of the first extension of the table
\* that the name ends with, "scan_file" when the loop ends without one.
Dispatch(name) ==
    LET table == extension_to_scan_function
        First(hits) == IF hits = {} THEN "scan_file"
                       ELSE table[CHOOSE i \in hits : \A j \in hits : i <= j][2]
    IN First({i \in 1..Len(table) : endswith(name, table[i][1])})

\* A mutant of CallDecoder: a blob that was handed to a decoder is scanned as
\* plain text as well.
CallDecoderAndPlain(self, blob, name, fs, helpers) ==
    LET Plain(r) ==
            IF r.raised THEN r
            ELSE Returned(r.found \o scan_file(self, decode(blob.text), name),
                          r.fs)
        Call(f) ==
            CASE f = "scan_tar" -> Plain(scan_tar(self, blob, name, fs))
              [] f = "scan_tar_gz" -> Plain(scan_tar_gz(self, blob, name, fs))
              [] f = "scan_gz" -> Plain(scan_gz(self, blob, name, fs))
              [] f = "scan_tar_zst" -> Plain(scan_tar_zst(self, blob, name, fs))
              [] f = "scan_zst" -> Plain(scan_zst(self, blob, name, fs))
              [] f = "scan_zip" -> Plain(scan_zip(self, blob, name, fs))
              [] f = "scan_deb" -> Plain(scan_deb(self, blob, name, fs, helpers))
              [] f = "scan_rpm" -> Plain(scan_rpm(self, blob, name, fs, helpers))
              [] OTHER -> Returned(scan_file(self, decode(blob.text), name), fs)
    IN Call(Dispatch(name))

\* The call scan_function(file_content, name), or, without a decoder, of
\* self.scan_file(file_content.decode("utf-8", errors="ignore"), name).
CallDecoder(self, blob, name, fs, helpers) ==
    LET Call(f) ==
            CASE f = "scan_tar" -> scan_tar(self, blob, name, fs)
              [] f = "scan_tar_gz" -> scan_tar_gz(self, blob, name, fs)
              [] f = "scan_gz" -> scan_gz(self, blob, name, fs)
              [] f = "scan_tar_zst" -> scan_tar_zst(self, blob, name, fs)
              [] f = "scan_zst" -> scan_zst(self, blob, name, fs)
              [] f = "scan_zip" -> scan_zip(self, blob, name, fs)
              [] f = "scan_deb" -> scan_deb(self, blob, name, fs, helpers)
              [] f = "scan_rpm" -> scan_rpm(self, blob, name, fs, helpers)
              [] OTHER -> Returned(scan_file(self, decode(blob.text), name), fs)
    IN Call(Dispatch(name))

\* ------------------------------------------------------------------ state

VARIABLES
    \* The inputs of a run, the same for every run of a behaviour.
    argv_ok,            \* the required arguments are all given
    entry,              \* [script, mode]: the script run, and its mode
    layout,             \* how the files mode is given the blobs, "bucket" in mode s3
    env_secrets_only,   \* --env-secrets-only
    environ,            \* os.environ
    blobs,              \* the keys under the prefix, or the files, in listing order
    helpers,            \* dpkg-deb, rpm2cpio and cpio are "present" on PATH or "missing"
    token_given,        \* a truncated listing response carries NextContinuationToken
    \* The process.
    pc,                 \* where the main program is
    sensitive_strings,  \* the module-level list
    matches,            \* self.matches, or the list scan_paths builds
    continuation_token, \* self.continuation_token, 0 for None
    response,           \* the response of list_objects_v2 being looped over
    idx,                \* the position of the loop in Contents, or in the paths
    exit_code,          \* the exit status of the process, -1 while it runs
    \* The machine.
    fs,                 \* temporary files and /tmp/package
    \* What an observer of the run sees.
    stdout,             \* the lines printed
    calls,              \* the requests made to S3, in order
    outcome,            \* per blob handled: what became of it
    reported,           \* the terminal reporting block has run
    crashed,            \* the process ended on an uncaught exception
    run,                \* the number of this run on the machine
    history,            \* the results of the earlier runs
    \* The pure-function specification.
    sf_in,              \* the arguments given to scan_file
    sf_done,            \* the flags scan_file was called with
    out_default,        \* its result with env_secrets_only false
    out_env             \* its result with env_secrets_only true

inputs ==
    <<argv_ok, entry, layout, env_secrets_only, environ, blobs, helpers,
      token_given>>
process ==
    <<pc, sensitive_strings, matches, continuation_token, response, idx,
      exit_code>>
observed == <<stdout, calls, outcome, reported, crashed>>
sfvars == <<sf_in, sf_done, out_default, out_env>>
vars == <<inputs, process, fs, observed, run, history, sfvars>>

MODE_S3 == "s3"
MODE_FILES == "files"

\* The three entry points: scan_artifacts.py s3, scan_artifacts.py files,
\* scan_s3_artifacts.py.
Entries ==
    {[script |-> SCAN_ARTIFACTS, mode |-> MODE_S3],
     [script |-> SCAN_ARTIFACTS, mode |-> MODE_FILES],
     [script |-> SCAN_S3_ARTIFACTS, mode |-> MODE_S3]}

\* The files mode is given each file by its path, or one directory that
\* holds them all, or a path that does not exist and then the files.
FileLayouts == {"files", "dir", "invalid_first"}

\* The sequences over S of length at most n.
RECURSIVE SeqsUpTo(_, _)
SeqsUpTo(S, n) ==
    IF n = 0 THEN {<<>>}
    ELSE LET shorter == SeqsUpTo(S, n - 1)
         IN shorter \cup {Append(q, x) : q \in shorter, x \in S}

\* The scanner object of the run.
Self == Scanner(entry.script, env_secrets_only, sensitive_strings)

NoResponse == [Contents |-> <<>>, IsTruncated |-> FALSE, NextContinuationToken |-> 0]

\* ---------------------------------------------------------------- S3

\* A mutant of list_objects_v2: the token of a truncated page names the page
\* after the next one.
list_objects_v2_SkippingAPage(token) ==
    LET p == token + 1
        first == (p - 1) * PageSize + 1
        last == Min(p * PageSize, Len(blobs))
    IN [Contents |-> SubSeq(blobs, first, last),
        IsTruncated |-> last < Len(blobs),
        NextContinuationToken |->
            IF last < Len(blobs) /\ token_given THEN p + 1 ELSE 0]

\* s3.list_objects_v2(Bucket, Prefix[, ContinuationToken]): a request without
\* token is answered with the first page, one with the token of page p with
\* page p + 1. A page that is not the last is truncated and carries its
\* token, unless the service leaves the token out: response.get then gives
\* None, which is 0 here, the value of "no token".
list_objects_v2(token) ==
    LET p == token + 1
        first == (p - 1) * PageSize + 1
        last == Min(p * PageSize, Len(blobs))
    IN [Contents |-> SubSeq(blobs, first, last),
        IsTruncated |-> last < Len(blobs),
        NextContinuationToken |->
            IF last < Len(blobs) /\ token_given THEN p ELSE 0]

\* ------------------------------------------------------------ files mode

\* A mutant of WorkList: scan_paths stops at a path that is neither a file
\* nor a directory.
WorkList_StopAtInvalid ==
    LET asFile(b) == [kind |-> "file", path |-> b.key, blob |-> b]
        inDir(b) == [kind |-> "file", path |-> DIR_NAME \o Slash \o b.key, blob |-> b]
        invalid == [kind |-> "invalid", path |-> PATH_INVALID, blob |-> B_LOG]
    IN CASE layout = "files" -> [i \in 1..Len(blobs) |-> asFile(blobs[i])]
         [] layout = "dir" -> [i \in 1..Len(blobs) |-> inDir(blobs[i])]
         [] layout = "invalid_first" -> <<invalid>>
         [] OTHER -> <<>>

\* The files that scan_paths comes to, in order: a path that is a file, the
\* files of the walk of a path that is a directory (os.path.join(root, file)),
\* and the paths that are neither.
WorkList ==
    LET asFile(b) == [kind |-> "file", path |-> b.key, blob |-> b]
        inDir(b) == [kind |-> "file", path |-> DIR_NAME \o Slash \o b.key, blob |-> b]
        invalid == [kind |-> "invalid", path |-> PATH_INVALID, blob |-> B_LOG]
    IN CASE layout = "files" -> [i \in 1..Len(blobs) |-> asFile(blobs[i])]
         [] layout = "dir" -> [i \in 1..Len(blobs) |-> inDir(blobs[i])]
         [] layout = "invalid_first" ->
                <<invalid>> \o [i \in 1..Len(blobs) |-> asFile(blobs[i])]
         [] OTHER -> <<>>

\* ------------------------------------------------------------- the result

\* A mutant of ExitCode: the process always succeeds.
ExitCodeAlwaysZero(found) == 0

\* The terminal block "if matches: ... exit(1) else: ... exit(0)".
ExitCode(found) == IF found # <<>> THEN 1 ELSE 0

\* The lines that the terminal block prints.
ReportLines(found) ==
    IF found # <<>>
    THEN <<<<"Leaks found:">>>> \o [i \in 1..Len(found) |-> <<"finding", found[i]>>]
    ELSE <<<<"No leaked strings found.">>>>

\* What became of a blob: "Scanned", "DecodeFailed" (the decoder raised) or
\* "ReadFailed" (its bytes could not be fetched), with the findings added to
\* the list of the run for it, the temporary files the call left behind, the
\* temporary files it made, and the directory that its helper was given to
\* extract into (the empty path when no helper was started).
Outcome(blob, name, status, found, before, after) ==
    [blob |-> blob, name |-> name, status |-> status, found |-> found,
     decoder |-> Dispatch(name), helpers |-> helpers,
     left |-> after.tmp \ before.tmp,
     tmp_files |-> before.next_tmp..(after.next_tmp - 1),
     directory |-> IF after.next_tmp > before.next_tmp /\ helpers = "present"
                   THEN TMP_PACKAGE ELSE <<>>]

\* ------------------------------------------------------------------ runs

\* A mutant of extend: the new findings are put before the list.
extend_AtTheFront(list, found) == found \o list

\* list.extend(found)
extend(list, found) == list \o found

\* The state of a process that has just started.
FreshProcess ==
    /\ pc = "parse"
    /\ sensitive_strings = <<>>
    /\ matches = <<>>
    /\ continuation_token = 0
    /\ response = NoResponse
    /\ idx = 0
    /\ exit_code = -1
    /\ stdout = <<>>
    /\ calls = <<>>
    /\ outcome = <<>>
    /\ reported = FALSE
    /\ crashed = FALSE

NoScanFile ==
    /\ sf_in = [script |-> SCAN_ARTIFACTS, sens |-> <<>>, content |-> <<>>,
                file_name |-> <<>>]
    /\ sf_done = {}
    /\ out_default = <<>>
    /\ out_env = <<>>

Init ==
    /\ argv_ok \in BOOLEAN
    /\ entry \in Entries
    /\ layout \in IF entry.mode = MODE_FILES /\ argv_ok THEN FileLayouts ELSE {"bucket"}
    /\ env_secrets_only \in BOOLEAN
    /\ environ \in Environments
    /\ helpers \in IF argv_ok THEN {"present", "missing"} ELSE {"present"}
    /\ blobs \in IF argv_ok THEN SeqsUpTo(Catalogue, MaxBlobs) ELSE {<<>>}
    /\ token_given = TRUE
    \* files: nargs="+", at least one path is given.
    /\ layout \in {"files", "invalid_first"} => blobs # <<>>
    /\ FreshProcess
    /\ fs = EmptyFs
    /\ run = 1
    /\ history = <<>>
    /\ NoScanFile

\* parser.parse_args() with every required argument given.
ParseArgs ==
    /\ pc = "parse"
    /\ argv_ok
    /\ pc' = "env"
    /\ UNCHANGED <<inputs, sensitive_strings, matches, continuation_token,
                   response, idx, exit_code, fs, observed, run, history, sfvars>>

\* A mutant of parser_error: the error is neither reported nor fatal.
parser_error_Silent(out) == [stdout |-> out, exit_code |-> 0]

\* ArgumentParser.error, which parse_args calls: the usage and the error are
\* printed, and the process exits with status 2.
parser_error(out) == [stdout |-> Append(out, <<"usage">>), exit_code |-> 2]

\* parser.parse_args() with a required argument missing.
ParseArgsError ==
    /\ pc = "parse"
    /\ ~argv_ok
    /\ stdout' = parser_error(stdout).stdout
    /\ exit_code' = parser_error(stdout).exit_code
    /\ pc' = "done"
    /\ UNCHANGED <<inputs, sensitive_strings, matches, continuation_token,
                   response, idx, fs, calls, outcome, reported, crashed, run,
                   history, sfvars>>

\* scanner.scan_env_vars()
ScanEnvVars ==
    /\ pc = "env"
    /\ sensitive_strings' = scan_env_vars(entry.script, sensitive_strings, environ)
    /\ pc' = IF entry.mode = MODE_S3 THEN "list"
             ELSE IF WorkList = <<>> THEN "report" ELSE "paths"
    /\ idx' = 1
    /\ UNCHANGED <<inputs, matches, continuation_token, response, exit_code,
                   fs, observed, run, history, sfvars>>

\* scan_s3_bucket, the head of the loop "while True": the list request, with
\* the token when there is one. A response without Contents goes straight to
\* the test of IsTruncated.
ListObjects ==
    /\ pc = "list"
    /\ Len(calls) < MaxCalls
    /\ LET r == list_objects_v2(continuation_token)
       IN /\ response' = r
          /\ calls' = Append(calls, <<"list", continuation_token>>)
          /\ idx' = 1
          /\ IF r.Contents # <<>>
             THEN pc' = "object" /\ UNCHANGED continuation_token
             ELSE IF r.IsTruncated
                  THEN /\ continuation_token' = r.NextContinuationToken
                       /\ pc' = "list"
                  ELSE pc' = "report" /\ UNCHANGED continuation_token
    /\ UNCHANGED <<inputs, sensitive_strings, matches, exit_code, fs, stdout,
                   outcome, reported, crashed, run, history, sfvars>>

\* The process ends on an exception that nothing catches: the interpreter
\* prints the traceback and exits with status 1.
Crash ==
    /\ pc' = "done"
    /\ crashed' = TRUE
    /\ exit_code' = 1

\* scan_s3_bucket, one turn of the loop "for obj in response.get('Contents',
\* [])": the object is fetched, handed to its decoder or to scan_file, and the
\* findings are added to self.matches. Nothing catches an exception of
\* get_object, of read or of the decoder. After the last object of the page:
\* the test of IsTruncated.
ScanObject ==
    /\ pc = "object"
    /\ idx <= Len(response.Contents)
    /\ LET blob == response.Contents[idx]
           key == blob.key
           Decoded(r) ==
               IF r.raised
               THEN /\ Crash
                    /\ fs' = r.fs
                    /\ outcome' = Append(outcome,
                           Outcome(blob, key, "DecodeFailed", <<>>, fs, r.fs))
                    /\ UNCHANGED <<matches, continuation_token, idx>>
               ELSE /\ matches' = extend(matches, r.found)
                    /\ fs' = r.fs
                    /\ outcome' = Append(outcome,
                           Outcome(blob, key, "Scanned", r.found, fs, r.fs))
                    /\ UNCHANGED <<crashed, exit_code>>
                    /\ IF idx < Len(response.Contents)
                       THEN /\ idx' = idx + 1
                            /\ UNCHANGED <<pc, continuation_token>>
                       ELSE /\ UNCHANGED idx
                            /\ IF response.IsTruncated
                               THEN /\ continuation_token' = response.NextContinuationToken
                                    /\ pc' = "list"
                               ELSE /\ pc' = "report"
                                    /\ UNCHANGED continuation_token
       IN /\ stdout' = Append(stdout, <<"Scanning", key>>)
          /\ calls' = Append(calls, <<"get", key>>)
          /\ IF ~blob.readable
             THEN /\ Crash
                  /\ outcome' = Append(outcome,
                         Outcome(blob, key, "ReadFailed", <<>>, fs, fs))
                  /\ UNCHANGED <<matches, continuation_token, idx, fs>>
             ELSE Decoded(CallDecoder(Self, blob, key, fs, helpers))
    /\ UNCHANGED <<inputs, sensitive_strings, response, reported, run, history,
                   sfvars>>

\* A mutant of scan_local_file: when the decoder raises, the findings of the
\* files that it had come to are returned: those of the members of the blob
\* and of the files that /tmp/package held.
scan_local_file_KeepingPartial(self, blob, file_path, fsys, tools) ==
    LET Partial(files) ==
            Concat([k \in 1..Len(files) |->
                       IF files[k].type = "file"
                       THEN scan_file(self, decode(files[k].data),
                                      file_path \o Slash \o files[k].name)
                       ELSE <<>>])
        Caught(r) ==
            IF r.raised
            THEN [found |-> Partial(fsys.pkg \o blob.members), fs |-> r.fs,
                  status |-> "DecodeFailed"]
            ELSE [found |-> r.found, fs |-> r.fs, status |-> "Scanned"]
    IN IF ~blob.readable
       THEN [found |-> <<>>, fs |-> fsys, status |-> "ReadFailed"]
       ELSE Caught(CallDecoder(self, blob, file_path, fsys, tools))

\* scan_local_file(file_path): what it returns, the file system after it and
\* what became of the file. The "except Exception" of the function catches the
\* exception of open, of read and of the decoder, prints it and returns the
\* list, which is still empty.
scan_local_file(self, blob, file_path, fsys, tools) ==
    LET Caught(r) ==
            IF r.raised
            THEN [found |-> <<>>, fs |-> r.fs, status |-> "DecodeFailed"]
            ELSE [found |-> r.found, fs |-> r.fs, status |-> "Scanned"]
    IN IF ~blob.readable
       THEN [found |-> <<>>, fs |-> fsys, status |-> "ReadFailed"]
       ELSE Caught(CallDecoder(self, blob, file_path, fsys, tools))

\* scan_paths, and scan_local_directory within it, one file or one invalid
\* path at a time: the findings of scan_local_file are added to the list.
ScanPath ==
    /\ pc = "paths"
    /\ idx <= Len(WorkList)
    /\ LET Extend(w, r) ==
               /\ matches' = extend(matches, r.found)
               /\ fs' = r.fs
               /\ stdout' = IF r.status = "Scanned" THEN stdout
                            ELSE Append(stdout, <<"Error reading file", w.path>>)
               /\ outcome' = Append(outcome,
                      Outcome(w.blob, w.path, r.status, r.found, fs, r.fs))
           Path(w) ==
               IF w.kind = "invalid"
               THEN /\ stdout' = Append(stdout, <<"Invalid path", w.path>>)
                    /\ UNCHANGED <<matches, fs, outcome>>
               ELSE Extend(w, scan_local_file(Self, w.blob, w.path, fs, helpers))
       IN Path(WorkList[idx])
    /\ idx' = idx + 1
    /\ pc' = IF idx = Len(WorkList) THEN "report" ELSE "paths"
    /\ UNCHANGED <<inputs, sensitive_strings, continuation_token, response,
                   exit_code, calls, reported, crashed, run, history, sfvars>>

\* The terminal block of __main__: the findings are printed and the process
\* exits.
Report ==
    /\ pc = "report"
    /\ stdout' = stdout \o ReportLines(matches)
    /\ exit_code' = ExitCode(matches)
    /\ reported' = TRUE
    /\ pc' = "done"
    /\ UNCHANGED <<inputs, sensitive_strings, matches, continuation_token,
                   response, idx, fs, calls, outcome, crashed, run, history,
                   sfvars>>

\* What a run leaves to compare the next one with.
RunResult ==
    [matches |-> matches, exit_code |-> exit_code, reported |-> reported,
     crashed |-> crashed, outcome |-> outcome]

\* The program is run again on the same machine with the same arguments, the
\* same environment and the same blobs: a new process, the file system as
\* the run before left it.
RunAgain ==
    /\ pc = "done"
    /\ run < MaxRuns
    /\ run' = run + 1
    /\ history' = Append(history, RunResult)
    /\ pc' = "parse"
    /\ sensitive_strings' = <<>>
    /\ matches' = <<>>
    /\ continuation_token' = 0
    /\ response' = NoResponse
    /\ idx' = 0
    /\ exit_code' = -1
    /\ stdout' = <<>>
    /\ calls' = <<>>
    /\ outcome' = <<>>
    /\ reported' = FALSE
    /\ crashed' = FALSE
    /\ UNCHANGED <<inputs, fs, sfvars>>

Next ==
    \/ ParseArgs
    \/ ParseArgsError
    \/ ScanEnvVars
    \/ ListObjects
    \/ ScanObject
    \/ ScanPath
    \/ Report
    \/ RunAgain

Spec == Init /\ [][Next]_vars

\* ------------------------------------------- scan_s3_bucket as a method

\* A scanner object of either script whose scan_env_vars and scan_s3_bucket
\* are called, over a bucket whose listing service gives the token of a
\* truncated response or leaves it out.
InitBucket ==
    /\ argv_ok = TRUE
    /\ entry \in {e \in Entries : e.mode = MODE_S3}
    /\ layout = "bucket"
    /\ env_secrets_only \in BOOLEAN
    /\ environ \in Environments
    /\ helpers \in {"present", "missing"}
    /\ blobs \in SeqsUpTo(Catalogue, MaxBlobs)
    /\ token_given \in BOOLEAN
    /\ FreshProcess
    /\ fs = EmptyFs
    /\ run = 1
    /\ history = <<>>
    /\ NoScanFile

\* scan_s3_bucket has returned self.matches and is called again on the same
\* object over the same bucket: self.matches and self.continuation_token are
\* as the call before left them. What the call before returned is kept in
\* history, and the requests and blobs are counted from this call on.
CallAgain ==
    /\ pc = "report"
    /\ Len(history) + 1 < MaxRuns
    /\ history' = Append(history, RunResult)
    /\ pc' = "list"
    /\ calls' = <<>>
    /\ outcome' = <<>>
    /\ UNCHANGED <<inputs, sensitive_strings, matches, continuation_token,
                   response, idx, exit_code, fs, stdout, reported, crashed, run,
                   sfvars>>

NextBucket ==
    \/ ParseArgs
    \/ ScanEnvVars
    \/ ListObjects
    \/ ScanObject
    \/ CallAgain

SpecBucket == InitBucket /\ [][NextBucket]_vars

\* ------------------------------------------- scan_file as a pure function

\* A short secret value, and an empty one: os.environ holds values of any
\* length.
VAL_SHORT ==
    <<"a", "b", "c">>

VAL_EMPTY == <<>>

\* The pieces that the contents given to scan_file are put together from.
Fragments ==
    {KW_SECRET, KW_TOKEN, <<"A", "_">>, <<"=">>, <<LF>>, <<CR>>, VAL_LONG,
     VAL_SHORT}

\* The contents of at most MaxFrags pieces.
Contents == {Concat(q) : q \in SeqsUpTo(Fragments, MaxFrags)}

\* The lists sensitive_strings that scan_file is called under.
SensitiveLists ==
    {<<>>, <<VAL_LONG>>, <<VAL_SHORT>>, <<VAL_SHORT, VAL_LONG>>, <<VAL_EMPTY>>}

\* No program runs.
NoRun ==
    /\ argv_ok = TRUE
    /\ entry = [script |-> SCAN_ARTIFACTS, mode |-> MODE_FILES]
    /\ layout = "files"
    /\ env_secrets_only = FALSE
    /\ environ = ENV_PLAIN
    /\ blobs = <<>>
    /\ helpers = "present"
    /\ token_given = TRUE
    /\ pc = "idle"
    /\ sensitive_strings = <<>>
    /\ matches = <<>>
    /\ continuation_token = 0
    /\ response = NoResponse
    /\ idx = 0
    /\ exit_code = -1
    /\ stdout = <<>>
    /\ calls = <<>>
    /\ outcome = <<>>
    /\ reported = FALSE
    /\ crashed = FALSE
    /\ fs = EmptyFs
    /\ run = 1
    /\ history = <<>>

InitScan ==
    /\ sf_in \in [script : Scripts, sens : SensitiveLists, content : Contents,
                  file_name : {KEY_LOG}]
    /\ sf_done = {}
    /\ out_default = <<>>
    /\ out_env = <<>>
    /\ NoRun

\* scan_file of a scanner made with env_secrets_only=False.
ScanFileDefault ==
    /\ pc = "idle"
    /\ FALSE \notin sf_done
    /\ out_default' = scan_file(Scanner(sf_in.script, FALSE, sf_in.sens),
                                sf_in.content, sf_in.file_name)
    /\ sf_done' = sf_done \cup {FALSE}
    /\ UNCHANGED <<inputs, process, fs, observed, run, history, sf_in, out_env>>

\* scan_file of a scanner made with env_secrets_only=True.
ScanFileEnvOnly ==
    /\ pc = "idle"
    /\ TRUE \notin sf_done
    /\ out_env' = scan_file(Scanner(sf_in.script, TRUE, sf_in.sens),
                            sf_in.content, sf_in.file_name)
    /\ sf_done' = sf_done \cup {TRUE}
    /\ UNCHANGED <<inputs, process, fs, observed, run, history, sf_in,
                   out_default>>

NextScan ==
    \/ ScanFileDefault
    \/ ScanFileEnvOnly

SpecScan == InitScan /\ [][NextScan]_vars

\* ------------------------------------------------ properties of scan_file

\* s as a whole matches the pattern (the first match at the start of s, the
\* greedy one, ends at its end).
FullMatch(pat, s) == MatchEnd(pat, s, 1) = Len(s) + 1

\* The run of uppercase letters and underscores around position i of a line:
\* where it starts and where it ends.
RunStart(line, i) ==
    CHOOSE a \in 1..i :
        /\ \A k \in a..i : line[k] \in UpperOrUnderscore
        /\ a = 1 \/ line[a - 1] \notin UpperOrUnderscore

RunEnd(line, j) ==
    CHOOSE b \in j..Len(line) :
        /\ \A k \in j..b : line[k] \in UpperOrUnderscore
        /\ b = Len(line) \/ line[b + 1] \notin UpperOrUnderscore

\* The finding (file_name, line_number, match) is in the list found.
Has(found, file_name, line_number, match) ==
    \E f \in 1..Len(found) : found[f] = <<file_name, line_number, match>>

\* Every substring of a line of the content that matches the pattern is
\* answered by a finding on that line: of the substring itself, or of the
\* whole run of uppercase letters and underscores that it lies in.
EveryMatchingSubstring(whole_run) ==
    LET pat == leaked_string_pattern(sf_in.script)
        Answer(line, i, j) ==
            IF whole_run
            THEN SubSeq(line, RunStart(line, i), RunEnd(line, j))
            ELSE SubSeq(line, i, j)
        OnLine(n, line) ==
            \A i \in 1..Len(line) : \A j \in i..Len(line) :
                (/\ line[i] \in UpperOrUnderscore
                 /\ line[j] \in UpperOrUnderscore
                 /\ FullMatch(pat, SubSeq(line, i, j)))
                    => Has(out_default, sf_in.file_name, n, Answer(line, i, j))
        OnLines(lines) == \A n \in 1..Len(lines) : OnLine(n, lines[n])
    IN FALSE \in sf_done => OnLines(splitlines(sf_in.content))

\* C7, as the claim states it: with env_secrets_only false, every substring s
\* of a line that matches the pattern has a finding whose matched text equals
\* s, on the 1-based number of that line.
C7_EverySubstringIsAFinding == EveryMatchingSubstring(FALSE)

\* C7, amended: with env_secrets_only false, every substring s of a line that
\* matches the pattern has a finding on the 1-based number of that line whose
\* matched text is the whole run of uppercase letters and underscores that s
\* lies in.
C7_EverySubstringIsInAFinding == EveryMatchingSubstring(TRUE)

\* C7, its case: the second line holds a name that matches the pattern and
\* whose rest after the first character matches it as well, and is scanned
\* with the flag false: the name is a finding, the substring is not.
C7_Witness ==
    /\ FALSE \in sf_done
    /\ \E f \in 1..Len(out_default) :
           /\ out_default[f][2] = 2
           /\ FullMatch(leaked_string_pattern(sf_in.script), out_default[f][3])
           /\ FullMatch(leaked_string_pattern(sf_in.script),
                        Tail(out_default[f][3]))
           /\ ~Has(out_default, sf_in.file_name, 2, Tail(out_default[f][3]))

\* The findings of a call, by the flag it was made with.
OutOf(flag) == IF flag THEN out_env ELSE out_default

\* C8, as the claim states it: for every value of the sensitive strings and
\* every line that contains it, scan_file records the finding of the first 4
\* characters of the value and '...', and that text does not contain the value.
C8_PreviewHidesTheSecret ==
    LET First4Dots(value) ==
            SubSeq(value, 1, Min(4, Len(value))) \o Ellipsis
        OnLine(flag, n, line) ==
            \A v \in 1..Len(sf_in.sens) :
                Contains(line, sf_in.sens[v]) =>
                    /\ Has(OutOf(flag), sf_in.file_name, n,
                           First4Dots(sf_in.sens[v]))
                    /\ ~Contains(First4Dots(sf_in.sens[v]), sf_in.sens[v])
        OnLines(flag, lines) ==
            \A n \in 1..Len(lines) : OnLine(flag, n, lines[n])
    IN \A flag \in sf_done : OnLines(flag, splitlines(sf_in.content))

\* A finding of a literal value: its text ends with the ellipsis, which no
\* match of the pattern holds.
IsLiteralFinding(finding) == endswith(finding[3], Ellipsis)

\* C9: with env_secrets_only true no finding is a match of the pattern, every
\* finding is the preview of a sensitive string that its line contains; and
\* the findings of literal values with the flag false are, in order, the
\* findings with the flag true.
C9_EnvSecretsOnly ==
    LET pat == leaked_string_pattern(sf_in.script)
        Literal(lines) ==
            \A f \in 1..Len(out_env) :
                /\ ~FullMatch(pat, out_env[f][3])
                /\ out_env[f][1] = sf_in.file_name
                /\ out_env[f][2] \in 1..Len(lines)
                /\ \E v \in 1..Len(sf_in.sens) :
                       /\ Contains(lines[out_env[f][2]], sf_in.sens[v])
                       /\ out_env[f][3] = Preview(sf_in.sens[v])
    IN /\ TRUE \in sf_done => Literal(splitlines(sf_in.content))
       /\ sf_done = {FALSE, TRUE} =>
              SelectSeq(out_default, IsLiteralFinding) = out_env

\* C9, its case: a line with a secret name and a secret value is scanned
\* with the flag true and with the flag false; the first call reports the
\* value alone, the second the name too.
C9_Witness ==
    /\ sf_done = {FALSE, TRUE}
    /\ out_env # <<>>
    /\ Len(out_default) > Len(out_env)

\* ---------------------------------------------------- properties of a run

\* C1: once the terminal reporting block has run, the exit code is 1 if the
\* list of findings is not empty and 0 if it is empty, in every entry point.
C1_ExitCodeTellsFindings ==
    reported => exit_code = (IF matches # <<>> THEN 1 ELSE 0)

\* C1, its case: a run has reported findings and has exited with 1.
C1_Witness == reported /\ matches # <<>> /\ exit_code = 1

\* The handling of the i-th blob of the run ended the process.
AbortedAt(i) == crashed /\ i = Len(outcome)

\* The run went through all its blobs and reported, and its exit code tells
\* whether a blob that was scanned gave a finding.
RanToItsEnd ==
    pc = "done" =>
        /\ reported
        /\ Len(outcome) = Len(blobs)
        /\ exit_code =
               (IF \E j \in 1..Len(outcome) :
                       outcome[j].status = "Scanned" /\ outcome[j].found # <<>>
                THEN 1 ELSE 0)

\* The decoders that read an archive within the process.
ArchiveDecoders ==
    {"scan_tar", "scan_tar_gz", "scan_gz", "scan_tar_zst", "scan_zst", "scan_zip"}

\* The decoders that start an external helper.
PackageDecoders == {"scan_deb", "scan_rpm"}

\* C2, as the claim states it: a decoder that raises on bytes that are no
\* archive does not abort the run, in mode s3 and in mode files: the later
\* blobs are scanned, the run reports, and the exit code is 1 exactly when a
\* blob that was scanned gave a finding.
C2_DecodeErrorIsSkipped ==
    \A i \in 1..Len(outcome) :
        (/\ outcome[i].status = "DecodeFailed"
         /\ outcome[i].decoder \in ArchiveDecoders
         /\ outcome[i].blob.fmt = "garbage")
            => ~AbortedAt(i) /\ RanToItsEnd

\* C3, as the claim states it: a blob whose bytes cannot be fetched is
\* skipped, and the run goes on with the blobs that remain.
C3_ReadErrorIsSkipped ==
    \A i \in 1..Len(outcome) :
        outcome[i].status = "ReadFailed" => ~AbortedAt(i) /\ RanToItsEnd

\* C4, as the claim states it: when the helper of a .deb or .rpm blob is not
\* on PATH, or exits with a status other than 0 (the bytes are no package),
\* no finding is recorded for the blob and the run is not aborted.
C4_HelperFailureIsSkipped ==
    \A i \in 1..Len(outcome) :
        (/\ outcome[i].decoder \in PackageDecoders
         /\ outcome[i].status # "ReadFailed"
         /\ (outcome[i].helpers = "missing" \/ outcome[i].blob.fmt = "garbage"))
            => outcome[i].found = <<>> /\ ~AbortedAt(i)

\* C5, as the claim states it: the temporary file of scan_deb and scan_rpm
\* does not exist any more when the call has ended, however it ended.
C5_TmpFileIsRemoved ==
    \A i \in 1..Len(outcome) :
        (outcome[i].decoder \in PackageDecoders /\ outcome[i].status # "ReadFailed")
            => outcome[i].left = {}

\* C6, as the claim states it: a run over the same input as the run before
\* it ends with the same list of findings, in the same order.
C6_SecondRunFindsTheSame ==
    (pc = "done" /\ history # <<>>) => matches = history[Len(history)].matches

NAME_MY_SECRET_TOKEN ==
    <<"M", "Y", "_", "S", "E", "C", "R", "E", "T", "_", "T", "O", "K", "E", "N">>

\* The findings that the claim C10 names for a container: scan_file of each
\* member's text under P/name, in the order of the entries, the entries that
\* are no regular file left out in the formats of tar.
FindingsOfMembers(self, blob, P) ==
    Concat([m \in 1..Len(blob.members) |->
               IF blob.fmt \in {"tar", "targz", "tarzst"}
                      /\ blob.members[m].type # "file"
               THEN <<>>
               ELSE scan_file(self, decode(blob.members[m].data),
                              P \o Slash \o blob.members[m].name)])

\* C10, as the claim states it: the findings of the decoder of a tar, tar.gz,
\* tgz, tar.zst or zip blob are those of its members, scanned in order under
\* prefix/name; archive.tar with config.txt = 'MY_SECRET_TOKEN=hello\n' gives
\* the one finding (archive.tar/config.txt, 1, MY_SECRET_TOKEN).
C10_ContainerFindings ==
    \A i \in 1..Len(outcome) :
        (outcome[i].blob.fmt \in {"tar", "targz", "tarzst", "zip"}
             /\ outcome[i].blob.readable)
            => /\ outcome[i].status = "Scanned"
               /\ outcome[i].found =
                      FindingsOfMembers(Self, outcome[i].blob, outcome[i].name)
               /\ (outcome[i].blob = B_TAR /\ outcome[i].name = KEY_TAR
                       /\ ~env_secrets_only)
                      => outcome[i].found =
                             << <<KEY_TAR \o Slash \o M_CONFIG_TXT, 1,
                                  NAME_MY_SECRET_TOKEN>> >>

\* The archives that are members of an archive of the catalogue.
NestedArchives == {[outer |-> B_OUTER, member |-> M_INNER_ZIP, inner |-> B_INNER_ZIP]}

\* C11, as the claim states it: a member of a container whose name ends in
\* the extension of an archive is decoded by the decoder of that extension,
\* and the findings of its members are reported under
\* outer/inner/member: a secret in app.conf inside inner.zip inside
\* outer.tar.gz under outer.tar.gz/inner.zip/app.conf.
C11_NestedArchivesAreDecoded ==
    \A i \in 1..Len(outcome) : \A n \in NestedArchives :
        (outcome[i].blob = n.outer /\ outcome[i].status = "Scanned")
            => LET Reported(expected) ==
                       \A e \in 1..Len(expected) :
                           Has(outcome[i].found, expected[e][1], expected[e][2],
                               expected[e][3])
               IN Reported(FindingsOfMembers(Self, n.inner,
                               outcome[i].name \o Slash \o n.member))

\* The function registered for the longest extension of the table that the
\* name ends with, "scan_file" if it ends with none.
DecoderOfLongest(name) ==
    LET table == extension_to_scan_function
        Longest(hits) ==
            IF hits = {} THEN "scan_file"
            ELSE table[CHOOSE i \in hits :
                          \A j \in hits : Len(table[j][1]) <= Len(table[i][1])][2]
    IN Longest({i \in 1..Len(table) : endswith(name, table[i][1])})

\* The names x<ext>...<ext> of at most MaxExts extensions of the table.
NamesOfExtensions ==
    {<<"x">> \o Concat(q) :
        q \in SeqsUpTo({extension_to_scan_function[i][1] :
                           i \in 1..Len(extension_to_scan_function)}, MaxExts)}

\* Dispatch chooses the longest extension for the name.
LongestWins(name) ==
    /\ Dispatch(name) = DecoderOfLongest(name)
    /\ (endswith(name, EXT_TAR_GZ) \/ endswith(name, EXT_TGZ))
           => Dispatch(name) = "scan_tar_gz"
    /\ endswith(name, EXT_TAR_ZST) => Dispatch(name) = "scan_tar_zst"

DispatchOnNamesOfExtensions == \A name \in NamesOfExtensions : LongestWins(name)

\* C12: the decoder that a blob is handed to is the one registered for the
\* longest extension of the table that its identifier ends with: .tar.gz and
\* .tgz go to scan_tar_gz and .tar.zst to scan_tar_zst, never to scan_gz or
\* scan_zst; so it is for every name made of extensions of the table.
C12_LongestExtensionWins ==
    /\ \A i \in 1..Len(outcome) :
           /\ outcome[i].decoder = Dispatch(outcome[i].name)
           /\ LongestWins(outcome[i].name)
    /\ DispatchOnNamesOfExtensions

\* C12, its case: a blob whose identifier ends with .tar.gz, and so with
\* .gz, has been decoded by scan_tar_gz.
C12_Witness ==
    \E i \in 1..Len(outcome) :
        /\ endswith(outcome[i].name, EXT_GZ)
        /\ endswith(outcome[i].name, EXT_TAR_GZ)
        /\ outcome[i].decoder = "scan_tar_gz"
        /\ outcome[i].status = "Scanned"

\* The requests made to S3 so far: the GETs, and the list requests.
Gets == SelectSeq(calls, LAMBDA c : c[1] = "get")
Lists == SelectSeq(calls, LAMBDA c : c[1] = "list")

\* C13: scan_s3_bucket fetches the listed keys one by one in the order of
\* the listing over all its pages, each once, and scans each object once; the
\* first list request carries no token, every later one the
\* NextContinuationToken of the response before it, which was truncated;
\* when the run reports, every key has been fetched and the last response
\* was not truncated.
C13_Pagination ==
    LET Fetched(gets) ==
            /\ Len(gets) <= Len(blobs)
            /\ \A k \in 1..Len(gets) : gets[k][2] = blobs[k].key
            /\ Len(outcome) = Len(gets)
            /\ \A k \in 1..Len(gets) : outcome[k].name = gets[k][2]
            /\ reported => Len(gets) = Len(blobs)
        Listed(lists) ==
            /\ lists # <<>> => lists[1][2] = 0
            /\ \A k \in 1..(Len(lists) - 1) :
                   /\ list_objects_v2(lists[k][2]).IsTruncated
                   /\ lists[k + 1][2] =
                          list_objects_v2(lists[k][2]).NextContinuationToken
            /\ reported =>
                   /\ lists # <<>>
                   /\ ~list_objects_v2(lists[Len(lists)][2]).IsTruncated
    IN entry.mode = MODE_S3 /\ argv_ok => Fetched(Gets) /\ Listed(Lists)

\* C13, its case: a listing of more than one page has been scanned to its
\* end, with a list request that carried a token.
C13_Witness ==
    /\ entry.mode = MODE_S3
    /\ reported
    /\ Len(Lists) > 1
    /\ Lists[Len(Lists)][2] # 0
    /\ Len(Gets) = Len(blobs)

\* C14, as the claim states it: TOKEN is a keyword of the pattern of both
\* scripts: with env_secrets_only false, a line that holds TOKEN has a
\* finding of the pattern whose matched text holds it, whichever script scans.
C14_TokenIsAKeyword ==
    LET OnLine(n, line) ==
            Contains(line, KW_TOKEN) =>
                \E f \in 1..Len(out_default) :
                    /\ out_default[f][2] = n
                    /\ ~IsLiteralFinding(out_default[f])
                    /\ Contains(out_default[f][3], KW_TOKEN)
        OnLines(lines) == \A n \in 1..Len(lines) : OnLine(n, lines[n])
    IN FALSE \in sf_done => OnLines(splitlines(sf_in.content))

\* The variables of the environment whose name the pattern of the script
\* matches (Pattern.match, from the start of the name).
SecretVariables ==
    {i \in 1..Len(environ) :
        re_match(leaked_string_pattern(entry.script), environ[i][1])}

\* C15: after scan_env_vars the sensitive strings are the values of the
\* variables whose name matches the pattern, one entry for each such variable
\* in the order of the environment, and nothing else.
C15_SensitiveStringsAreTheSecretValues ==
    (argv_ok /\ pc \notin {"parse", "env"}) =>
        /\ Len(sensitive_strings) = Cardinality(SecretVariables)
        /\ \A i \in SecretVariables :
               sensitive_strings[Cardinality({j \in SecretVariables : j <= i})]
                   = environ[i][2]

\* C15, its case: the environment holds a variable of a secret name and one
\* of another name, and scan_env_vars has kept the value of the first alone.
C15_Witness ==
    /\ pc = "report"
    /\ SecretVariables # {}
    /\ Cardinality(SecretVariables) < Len(environ)
    /\ sensitive_strings = <<VAL_LONG>>

\* C16: with a required argument missing the process reports the error and
\* exits with a status other than 0, and until then and after no variable of
\* the environment is harvested, no blob is listed, fetched or scanned and no
\* finding is printed.
C16_MissingArgumentsAreFatal ==
    ~argv_ok =>
        /\ pc \in {"parse", "done"}
        /\ sensitive_strings = <<>>
        /\ calls = <<>>
        /\ outcome = <<>>
        /\ matches = <<>>
        /\ ~reported
        /\ fs = EmptyFs
        /\ pc = "done" =>
               /\ exit_code \notin {0, -1}
               /\ stdout = <<<<"usage">>>>

\* C16, its case: a process started without its arguments has ended.
C16_Witness == ~argv_ok /\ pc = "done" /\ exit_code = 2 /\ stdout # <<>>

\* The units that the claims name for a blob that is decoded within the
\* process, each with its logical path and its text: the blob itself for a
\* plain, .gz or .zst blob, and the members of a container (the regular files
\* of a tar).
Units(blob, name) ==
    IF blob.fmt \in {"tar", "targz", "tarzst", "zip"}
    THEN LET files == SelectSeq(blob.members,
                          LAMBDA m : blob.fmt = "zip" \/ m.type = "file")
         IN [k \in 1..Len(files) |->
                [path |-> name \o Slash \o files[k].name,
                 text |-> decode(files[k].data)]]
    ELSE <<[path |-> name, text |-> decode(blob.text)]>>

\* The matched text of a finding is on the line: a part of it, or the
\* preview of a sensitive string that is a part of it.
IsOnLine(match, line) ==
    \/ Contains(line, match)
    \/ \E v \in 1..Len(sensitive_strings) :
           /\ Contains(line, sensitive_strings[v])
           /\ match = Preview(sensitive_strings[v])

\* The finding is on the line of that number of the text.
IsAtLineOf(finding, lines) ==
    /\ finding[2] \in 1..Len(lines)
    /\ IsOnLine(finding[3], lines[finding[2]])

\* C17: the line number of every finding is at least 1, and it is the number
\* of the finding's line within the unit that the finding names (the member
\* of the archive, the decompressed stream, the plain file), counted from 1
\* in every unit.
C17_LineNumbersArePerUnit ==
    \A i \in 1..Len(outcome) : \A f \in 1..Len(outcome[i].found) :
        /\ outcome[i].found[f][2] >= 1
        /\ outcome[i].decoder \notin PackageDecoders =>
               \E u \in 1..Len(Units(outcome[i].blob, outcome[i].name)) :
                   /\ Units(outcome[i].blob, outcome[i].name)[u].path
                          = outcome[i].found[f][1]
                   /\ IsAtLineOf(outcome[i].found[f],
                          splitlines(Units(outcome[i].blob, outcome[i].name)[u].text))

\* C17, its case: an archive of two files gives a finding on line 2 of the
\* first and then a finding on line 1 of the second.
C17_Witness ==
    \E i \in 1..Len(outcome) :
        /\ outcome[i].blob = B_TGZ
        /\ Len(outcome[i].found) = 2
        /\ outcome[i].found[1][2] = 2
        /\ outcome[i].found[2][2] = 1
        /\ outcome[i].found[1][1] # outcome[i].found[2][1]

\* The paths that a run enumerates and scans, in the order of the listing
\* or of the arguments.
Enumerated ==
    LET files == SelectSeq(WorkList, LAMBDA w : w.kind # "invalid")
    IN IF entry.mode = MODE_S3 THEN [k \in 1..Len(blobs) |-> blobs[k].key]
       ELSE [k \in 1..Len(files) |-> files[k].path]

\* The matched text of a finding is a match of the pattern.
IsPatternFinding(finding) ==
    /\ finding[3] # <<>>
    /\ \A c \in 1..Len(finding[3]) : finding[3][c] \in UpperOrUnderscore

\* The place of a finding's unit among the units of its blob, 0 if it names
\* none of them.
UnitOf(units, finding) ==
    IF \E u \in 1..Len(units) : units[u].path = finding[1]
    THEN CHOOSE u \in 1..Len(units) : units[u].path = finding[1]
    ELSE 0

\* first is left of second on the line and does not overlap it.
IsLeftOf(first, second, line) ==
    \E p \in 1..Len(line) : \E q \in (p + Len(first))..Len(line) :
        StartsWithAt(line, p, first) /\ StartsWithAt(line, q, second)

\* Two findings of one blob, f before g in its list, are in discovery order:
\* of one path by non-decreasing line number, on one line the matches of the
\* pattern before the literal values; in a blob that is decoded within the
\* process by the order of the units, and two matches of the pattern on one
\* line from left to right.
InDiscoveryOrder(out, f, g) ==
    LET units == Units(out.blob, out.name)
        Line(finding) ==
            splitlines(units[UnitOf(units, finding)].text)[finding[2]]
    IN /\ f[1] = g[1] =>
              /\ f[2] <= g[2]
              /\ f[2] = g[2] /\ IsLiteralFinding(f) => IsLiteralFinding(g)
       /\ out.decoder \notin PackageDecoders =>
              /\ UnitOf(units, f) # 0
              /\ UnitOf(units, f) <= UnitOf(units, g)
              /\ (/\ f[1] = g[1]
                  /\ f[2] = g[2]
                  /\ IsPatternFinding(f)
                  /\ IsPatternFinding(g)) => IsLeftOf(f[3], g[3], Line(f))

C18_IsTheConcatenation ==
    /\ matches = Concat([i \in 1..Len(outcome) |-> outcome[i].found])
    /\ Len(outcome) <= Len(Enumerated)
    /\ \A i \in 1..Len(outcome) :
           /\ outcome[i].name = Enumerated[i]
           /\ \A f, g \in 1..Len(outcome[i].found) :
                  f < g => InDiscoveryOrder(outcome[i], outcome[i].found[f],
                                            outcome[i].found[g])

C18_IsOnlyAppendedTo ==
    run' = run =>
        /\ Len(matches) <= Len(matches')
        /\ SubSeq(matches', 1, Len(matches)) = matches

\* C18: the list of findings of a run is the concatenation of the findings
\* of its blobs in the order of the enumeration, the findings of a blob in
\* discovery order (members in their order, lines by non-decreasing number,
\* on a line the matches of the pattern from left to right and then the
\* literal values); and a step of the run only appends to the list: what is
\* on it is not removed, changed or moved.
C18_DiscoveryOrderAppendOnly ==
    []C18_IsTheConcatenation /\ [][C18_IsOnlyAppendedTo]_vars

\* C18, its case: the second blob of a run is scanned after a first that had
\* two matches of the pattern and a literal value on one line, and its
\* findings are on the list after those.
C18_Witness ==
    /\ Len(outcome) = 2
    /\ outcome[1].blob = B_TWO
    /\ Len(outcome[1].found) = 3
    /\ IsPatternFinding(outcome[1].found[1])
    /\ IsPatternFinding(outcome[1].found[2])
    /\ IsLiteralFinding(outcome[1].found[3])
    /\ outcome[2].blob = B_TGZ
    /\ Len(outcome[2].found) = 2
    /\ matches = outcome[1].found \o outcome[2].found

\* The handler of the first entry of the table, from entry i on, whose
\* extension the name ends with; the plain scan when there is none.
RECURSIVE HandlerFrom(_, _)
HandlerFrom(name, i) ==
    IF i > Len(extension_to_scan_function) THEN "scan_file"
    ELSE IF endswith(name, extension_to_scan_function[i][1])
         THEN extension_to_scan_function[i][2]
         ELSE HandlerFrom(name, i + 1)

\* What the handler alone finds in the blob, for a handler that works within
\* the process.
FoundBy(handler, blob, name) ==
    CASE handler = "scan_tar" -> scan_tar(Self, blob, name, EmptyFs).found
      [] handler = "scan_tar_gz" -> scan_tar_gz(Self, blob, name, EmptyFs).found
      [] handler = "scan_gz" -> scan_gz(Self, blob, name, EmptyFs).found
      [] handler = "scan_tar_zst" -> scan_tar_zst(Self, blob, name, EmptyFs).found
      [] handler = "scan_zst" -> scan_zst(Self, blob, name, EmptyFs).found
      [] handler = "scan_zip" -> scan_zip(Self, blob, name, EmptyFs).found
      [] OTHER -> scan_file(Self, decode(blob.text), name)

\* The handlers whose findings are under the name of the blob itself.
WholeBlobHandlers == {"scan_file", "scan_gz", "scan_zst"}

HandledByOne(out, handler) ==
    /\ out.decoder = handler
    /\ handler \notin PackageDecoders =>
           out.found = FoundBy(handler, out.blob, out.name)
    /\ handler \in PackageDecoders =>
           \A f \in 1..Len(out.found) :
               StartsWithAt(out.found[f][1], 1,
                            out.name \o Slash \o TMP_PACKAGE \o Slash)
    /\ handler \notin WholeBlobHandlers =>
           \A f \in 1..Len(out.found) : out.found[f][1] # out.name

\* C19: a blob that has been scanned was handled by one handler, the decoder
\* of the first extension of the table that its identifier ends with, the
\* plain scan of the whole blob when it ends with none: its findings are
\* those of that handler alone, and a blob that went to a container decoder
\* has no finding of a plain scan of its bytes.
C19_OneHandler ==
    \A i \in 1..Len(outcome) :
        outcome[i].status = "Scanned" =>
            HandledByOne(outcome[i], HandlerFrom(outcome[i].name, 1))

\* C19, its case: a run has decoded a tar archive whose bytes, scanned as
\* plain text, would give a finding, and has scanned a blob of no extension
\* of the table as plain text.
C19_Witness ==
    /\ Len(outcome) = 2
    /\ outcome[1].blob = B_TAR
    /\ outcome[1].decoder = "scan_tar"
    /\ outcome[1].found # <<>>
    /\ scan_file(Self, decode(B_TAR.text), outcome[1].name) # <<>>
    /\ outcome[2].blob = B_TWO
    /\ outcome[2].decoder = "scan_file"
    /\ outcome[2].found # <<>>

\* The formats that hold members.
ContainerFormats == {"tar", "targz", "tarzst", "zip", "deb", "rpm"}

\* The logical path that the claim gives a finding of the blob: the
\* identifier itself for a plain, .gz or .zst blob, the identifier, '/' and
\* the path of a member inside the container for a container.
IsLogicalPath(path, blob, name) ==
    /\ path # <<>>
    /\ StartsWithAt(path, 1, name)
    /\ blob.fmt \notin ContainerFormats => path = name
    /\ blob.fmt \in ContainerFormats =>
           \E m \in 1..Len(blob.members) :
               path = name \o Slash \o blob.members[m].name

\* C20, as the claim states it: the path of every finding is not empty,
\* starts with the identifier of the blob that the finding came from, is that
\* identifier for a plain, .gz or .zst blob, and for a member of a container
\* (tar, tar.gz, tar.zst, zip, deb, rpm) the identifier, '/' and the path of
\* the member inside the container.
C20_LogicalPaths ==
    \A i \in 1..Len(outcome) : \A f \in 1..Len(outcome[i].found) :
        IsLogicalPath(outcome[i].found[f][1], outcome[i].blob, outcome[i].name)

\* The regular files of a package that hold a finding when scanned alone.
MembersWithFindings(blob) ==
    {m \in 1..Len(blob.members) :
        /\ blob.members[m].type = "file"
        /\ scan_file(Self, decode(blob.members[m].data), <<>>) # <<>>}

\* The findings hold one of the member, under a path that ends with the
\* path of the member.
IsScannedAsLeaf(found, member) ==
    \E f \in 1..Len(found) :
        /\ endswith(found[f][1], Slash \o member.name)
        /\ \E g \in 1..Len(scan_file(Self, decode(member.data), <<>>)) :
               /\ scan_file(Self, decode(member.data), <<>>)[g][2] = found[f][2]
               /\ scan_file(Self, decode(member.data), <<>>)[g][3] = found[f][3]

\* C21, as the claim states it: with the helpers installed scan_rpm extracts
\* every regular file of the payload of the rpm into the extraction directory
\* and scans it, as scan_deb does: the blob is scanned and every file of its
\* payload that holds a secret has its finding.
C21_RpmPayloadIsScanned ==
    \A i \in 1..Len(outcome) :
        (outcome[i].blob.fmt = "rpm" /\ outcome[i].blob.readable
             /\ outcome[i].helpers = "present")
            => /\ outcome[i].status = "Scanned"
               /\ \A m \in MembersWithFindings(outcome[i].blob) :
                      IsScannedAsLeaf(outcome[i].found, outcome[i].blob.members[m])

\* The regular files that the paths given to the files mode name, in the
\* order of the paths: given directly, or in the directory given.
FilesOfPaths ==
    [k \in 1..Len(blobs) |->
        IF layout = "dir" THEN DIR_NAME \o Slash \o blobs[k].key
        ELSE blobs[k].key]

InvalidPathLines ==
    SelectSeq(stdout, LAMBDA l : l = <<"Invalid path", PATH_INVALID>>)

\* C22: scan_paths hands every regular file of its paths to scan_local_file,
\* once and in the order of the paths, the files of a directory under the
\* directory; a path that is neither a file nor a directory is reported as
\* invalid once and is no blob of the run, the files after it are scanned,
\* and the exit code is that of the findings of the files.
C22_ScanPaths ==
    (entry.mode = MODE_FILES /\ argv_ok) =>
        /\ Len(outcome) <= Len(FilesOfPaths)
        /\ \A k \in 1..Len(outcome) :
               /\ outcome[k].name = FilesOfPaths[k]
               /\ outcome[k].blob = blobs[k]
        /\ pc \in {"report", "done"} => Len(outcome) = Len(FilesOfPaths)
        /\ ~crashed
        /\ Len(InvalidPathLines) =
               IF layout = "invalid_first" /\ (pc \in {"report", "done"} \/ idx > 1)
               THEN 1 ELSE 0
        /\ reported =>
               exit_code = IF \E k \in 1..Len(outcome) : outcome[k].found # <<>>
                           THEN 1 ELSE 0

\* C22, its case: a path that does not exist was given before two files; it
\* was reported, both files were scanned after it, and the exit code is 1 for
\* the findings of the second file alone.
C22_Witness ==
    /\ entry.mode = MODE_FILES
    /\ layout = "invalid_first"
    /\ reported
    /\ Len(InvalidPathLines) = 1
    /\ Len(outcome) = 2
    /\ outcome[1].found = <<>>
    /\ outcome[2].found # <<>>
    /\ exit_code = 1

\* The values of the variables of a secret name, in the order of the
\* environment.
SecretValues ==
    LET secret == SelectSeq([i \in 1..Len(environ) |-> i],
                            LAMBDA i : i \in SecretVariables)
    IN [k \in 1..Len(secret) |-> environ[secret[k]][2]]

\* Before scan_env_vars has run the list is empty and no blob has been
\* listed, fetched or scanned; after it the list is what one call leaves.
C23_HarvestedOnceBeforeTheScan ==
    argv_ok =>
        /\ pc \in {"parse", "env"} =>
               /\ sensitive_strings = <<>>
               /\ calls = <<>>
               /\ outcome = <<>>
               /\ matches = <<>>
        /\ pc \notin {"parse", "env"} => sensitive_strings = SecretValues

\* A step of the scan of a process leaves the list as it is.
C23_ScanLeavesTheListAlone ==
    (pc \notin {"parse", "env"} /\ run' = run) =>
        sensitive_strings' = sensitive_strings

\* C23: in both modes the sensitive strings are set by one call of
\* scan_env_vars that ends before the first blob is listed or scanned, and no
\* step of the scan after it adds to the list, removes from it or reorders
\* it: it is the same at the start and at the end of the scan.
C23_SensitiveStringsAreReadOnly ==
    []C23_HarvestedOnceBeforeTheScan /\ [][C23_ScanLeavesTheListAlone]_vars

\* C23, its case: a scan of two blobs has ended with findings of a literal
\* value, the list being the one value that scan_env_vars found.
C23_Witness ==
    /\ reported
    /\ Len(outcome) = 2
    /\ sensitive_strings = <<VAL_LONG>>
    /\ \E f \in 1..Len(outcome[2].found) : IsLiteralFinding(outcome[2].found[f])

\* The blobs of the run that a package decoder was called on.
PackageInvocations ==
    {i \in 1..Len(outcome) :
        outcome[i].decoder \in PackageDecoders /\ outcome[i].tmp_files # {}}

\* C24, as the claim states it: no two invocations of scan_deb or scan_rpm
\* use the same temporary file or the same extraction directory.
C24_UniqueNamesPerInvocation ==
    \A i, j \in PackageInvocations :
        i # j =>
            /\ outcome[i].tmp_files \cap outcome[j].tmp_files = {}
            /\ (outcome[i].directory # <<>> /\ outcome[j].directory # <<>>)
                   => outcome[i].directory # outcome[j].directory

\* The path names a file of the package: it ends with '/' and the path of a
\* regular file that the package holds.
IsFileOfPackage(path, blob) ==
    \E m \in 1..Len(blob.members) :
        /\ blob.members[m].type = "file"
        /\ endswith(path, Slash \o blob.members[m].name)

\* C25, as the claim states it: the findings reported for a .deb or .rpm blob
\* come from files that the package holds, never from a file that the scan of
\* an earlier package extracted.
C25_FindingsAreOfThePackage ==
    \A i \in 1..Len(outcome) :
        outcome[i].decoder \in PackageDecoders =>
            \A f \in 1..Len(outcome[i].found) :
                IsFileOfPackage(outcome[i].found[f][1], outcome[i].blob)

\* C26, as the claim states it: after its first request a call of
\* scan_s3_bucket never sends a list request without a continuation token, so
\* it never lists the first page twice, also when a truncated response carries
\* no NextContinuationToken.
C26_FirstPageIsListedOnce ==
    history = <<>> => \A k \in 2..Len(Lists) : Lists[k][2] # 0

\* C27, as the claim states it: a second call of scan_s3_bucket on the same
\* object over the same bucket lists from the first page, and returns what
\* the first call returned: the token and the findings of the first call are
\* not carried into it.
C27_SecondCallIsLikeTheFirst ==
    (history # <<>> /\ token_given) =>
        /\ Lists # <<>> => Lists[1][2] = 0
        /\ pc = "report" => matches = history[1].matches

\* The findings of the blobs that were scanned to their end, in order.
FindingsOfScanned ==
    Concat([i \in 1..Len(outcome) |->
               IF outcome[i].status = "Scanned" THEN outcome[i].found ELSE <<>>])

C28_FailedBlobGivesNothing ==
    (entry.mode = MODE_FILES /\ argv_ok) =>
        /\ matches = FindingsOfScanned
        /\ \A i \in 1..Len(outcome) :
               outcome[i].status # "Scanned" => outcome[i].found = <<>>

C28_FailureLeavesTheListAlone ==
    (/\ entry.mode = MODE_FILES
     /\ Len(outcome') = Len(outcome) + 1
     /\ outcome'[Len(outcome')].status # "Scanned") => matches' = matches

\* C28: in the files mode a blob whose decoder raises adds nothing to the
\* findings of the run, also when files had been scanned before the decoder
\* failed, and the findings of the blobs before it stay as they were.
C28_AllOrNothing ==
    []C28_FailedBlobGivesNothing /\ [][C28_FailureLeavesTheListAlone]_vars

\* C28, its case: after a package with a finding, the decoder of a second
\* package has walked the files of /tmp/package, which hold a secret, and has
\* raised on a dangling link: the list holds the findings of the first alone.
C28_Witness ==
    /\ entry.mode = MODE_FILES
    /\ ~env_secrets_only
    /\ Len(outcome) = 2
    /\ outcome[1].blob = B_DEB
    /\ outcome[1].status = "Scanned"
    /\ outcome[1].found # <<>>
    /\ outcome[2].blob = B_LINK_DEB
    /\ outcome[2].helpers = "present"
    /\ outcome[2].status = "DecodeFailed"
    /\ matches = outcome[1].found

\* C29, as the claim states it: a finding of a literal value is on a line
\* that holds a sensitive string that is not empty, so that an empty value
\* among the sensitive strings gives a clean content no finding.
C29_LiteralFindingsNeedASecret ==
    LET OnLinesWithASecret(lines) ==
            \A f \in 1..Len(out_env) :
                \E v \in 1..Len(sf_in.sens) :
                    /\ sf_in.sens[v] # <<>>
                    /\ Contains(lines[out_env[f][2]], sf_in.sens[v])
                    /\ out_env[f][3] = Preview(sf_in.sens[v])
    IN TRUE \in sf_done => OnLinesWithASecret(splitlines(sf_in.content))

\* scan_env_vars registers the value of a variable of that name.
IsHarvested(script, var_name) ==
    scan_env_vars(script, <<>>, << <<var_name, VAL_LONG>> >>) = <<VAL_LONG>>

\* C30, as the claim states it: for a string n that is one line,
\* scan_env_vars registers the value of a variable named n exactly when
\* scan_file with env_secrets_only false reports a match of the pattern on
\* the line n, also when n has a lowercase or digit prefix before the
\* keyword.
C30_HarvestAgreesWithScan ==
    (FALSE \in sf_done /\ splitlines(sf_in.content) = <<sf_in.content>>) =>
        (IsHarvested(sf_in.script, sf_in.content)
            <=> \E f \in 1..Len(out_default) : IsPatternFinding(out_default[f]))

====
